---- MODULE Spec2Model ----
(***************************************************************************)
(* A model of trino/sqlalchemy/dialect.py (class TrinoDialect).            *)
(*                                                                         *)
(* Two specifications share the module:                                    *)
(*   SpecUrl  create_connect_args applied to a URL drawn from a bounded    *)
(*            set of URLs;                                                 *)
(*   Spec     the reflection operations of one dialect over one            *)
(*            connection, whose executed statements are logged.            *)
(*                                                                         *)
(* Python values.  A str is a sequence of tokens; a token is one character *)
(* or, for a literal the code never looks into, the whole literal          *)
(* (<<"system">>).  None is the one-token sequence None below, which no    *)
(* input string equals.  A dict is a function from its keys.               *)
(***************************************************************************)
EXTENDS Integers, Sequences, FiniteSets, TLC

None == <<"<None>">>

\* Python truthiness of an Optional[str]: None and "" are falsy.
Truthy(v) == v # None /\ v # <<>>

\* x or y
Or(x, y) == IF Truthy(x) THEN x ELSE y

NoExc == [type |-> "none", msg |-> "", error_name |-> ""]
ValueError(m) == [type |-> "ValueError", msg |-> m, error_name |-> ""]

-----------------------------------------------------------------------------
(* str.split(sep), urllib.parse.unquote_plus, json.loads                   *)

RECURSIVE split(_, _)
split(s, sep) ==
    IF \A i \in 1..Len(s) : s[i] # sep
    THEN <<s>>
    ELSE LET i == CHOOSE k \in 1..Len(s) :
                      s[k] = sep /\ \A j \in 1..(k - 1) : s[j] # sep
         IN  <<SubSeq(s, 1, i - 1)>> \o split(SubSeq(s, i + 1, Len(s)), sep)

HexVal ==
    "0" :> 0 @@ "1" :> 1 @@ "2" :> 2 @@ "3" :> 3 @@ "4" :> 4 @@ "5" :> 5 @@
    "6" :> 6 @@ "7" :> 7 @@ "8" :> 8 @@ "9" :> 9 @@ "A" :> 10 @@ "B" :> 11 @@
    "C" :> 12 @@ "D" :> 13 @@ "E" :> 14 @@ "F" :> 15 @@ "a" :> 10 @@
    "b" :> 11 @@ "c" :> 12 @@ "d" :> 13 @@ "e" :> 14 @@ "f" :> 15

\* The character a single escaped byte decodes to (utf-8, errors="replace"):
\* an ASCII byte is its character, a byte that starts no complete sequence
\* is U+FFFD.
chr(n) ==
    CASE n = 32 -> " "
      [] n = 34 -> "\""
      [] n = 37 -> "%"
      [] n = 43 -> "+"
      [] n = 47 -> "/"
      [] n >= 128 -> "U+FFFD"
      [] OTHER -> "chr(" \o ToString(n) \o ")"

RECURSIVE unquote(_)
unquote(s) ==
    IF s = <<>> THEN <<>>
    ELSE IF /\ s[1] = "%"
            /\ Len(s) >= 3
            /\ s[2] \in DOMAIN HexVal
            /\ s[3] \in DOMAIN HexVal
         THEN <<chr(16 * HexVal[s[2]] + HexVal[s[3]])>>
                  \o unquote(SubSeq(s, 4, Len(s)))
         ELSE <<s[1]>> \o unquote(Tail(s))

unquote_plus(s) ==
    unquote([i \in 1..Len(s) |-> IF s[i] = "+" THEN " " ELSE s[i]])

\* json.loads on the documents of JsonDocs: "[]" is the empty list, "[" is
\* no JSON document.
json_loads(doc) ==
    IF doc = <<"[", "]">>
    THEN [exc |-> NoExc, value |-> <<>>]
    ELSE [exc |-> [type |-> "JSONDecodeError", msg |-> "Expecting value",
                   error_name |-> ""],
          value |-> None]

-----------------------------------------------------------------------------
(* create_connect_args                                                     *)

\* The outcome of a call: a returned value or a raised exception.
Return(v) == [kind |-> "return", value |-> v, exc |-> NoExc]
Raise(e) == [kind |-> "raise", value |-> None, exc |-> e]
NotCalled == [kind |-> "not_called", value |-> None, exc |-> NoExc]

\* kwargs[k] = v
Set(kwargs, k, v) == (k :> v) @@ kwargs

BasicAuthentication(u, p) == [mode |-> "basic", username |-> u, password |-> p]
JWTAuthentication(t) == [mode |-> "jwt", token |-> t]
CertificateAuthentication(c, k) == [mode |-> "certificate", cert |-> c, key |-> k]
OAuth2Authentication == [mode |-> "oauth2"]

\* host, and port when the URL has one
host_kwargs(url) ==
    LET kwargs == "host" :> url.host
    IN  IF Truthy(url.port) THEN Set(kwargs, "port", url.port) ELSE kwargs

\* (url.database or "system").split("/")
db_parts(url) == split(Or(url.database, <<"system">>), "/")

\* db_kwargs with a path of three or more segments accepted: the segments
\* after the second are dropped instead of refused.
db_kwargs_lenient(url, kwargs) ==
    LET parts == db_parts(url)
    IN  IF Len(parts) = 1
        THEN Return(Set(kwargs, "catalog", unquote_plus(parts[1])))
        ELSE Return(Set(Set(kwargs, "catalog", unquote_plus(parts[1])),
                        "schema", unquote_plus(parts[2])))

\* catalog and schema from the database path, or ValueError
db_kwargs(url, kwargs) ==
    LET parts == db_parts(url)
    IN  IF Len(parts) = 1
        THEN Return(Set(kwargs, "catalog", unquote_plus(parts[1])))
        ELSE IF Len(parts) = 2
        THEN Return(Set(Set(kwargs, "catalog", unquote_plus(parts[1])),
                        "schema", unquote_plus(parts[2])))
        ELSE Raise(ValueError("Unexpected database format"))

user_kwargs(url, kwargs) ==
    IF Truthy(url.username)
    THEN Set(kwargs, "user", unquote_plus(url.username))
    ELSE kwargs

\* password_kwargs without the username check: a password alone is ignored.
password_kwargs_unchecked(url, kwargs) ==
    IF Truthy(url.password) /\ Truthy(url.username)
    THEN Return(Set(kwargs, "auth",
                    BasicAuthentication(unquote_plus(url.username),
                                        unquote_plus(url.password))))
    ELSE Return(kwargs)

\* basic authentication from the password, or ValueError without a username
password_kwargs(url, kwargs) ==
    IF Truthy(url.password)
    THEN IF ~Truthy(url.username)
         THEN Raise(ValueError("Username is required when specify password in connection URL"))
         ELSE Return(Set(kwargs, "auth",
                         BasicAuthentication(unquote_plus(url.username),
                                             unquote_plus(url.password))))
    ELSE Return(kwargs)

\* query_auth_kwargs with the access_token read after cert and key, so that
\* the token wins over the certificate.
query_auth_kwargs_token_late(url, kwargs) ==
    LET q == url.query
        k1 == IF "cert" \in DOMAIN q /\ "key" \in DOMAIN q
              THEN Set(kwargs, "auth", CertificateAuthentication(unquote_plus(q["cert"]),
                                                                 unquote_plus(q["key"])))
              ELSE kwargs
        k2 == IF "access_token" \in DOMAIN q
              THEN Set(k1, "auth", JWTAuthentication(unquote_plus(q["access_token"])))
              ELSE k1
    IN  IF "externalAuthentication" \in DOMAIN q
        THEN Set(k2, "auth", OAuth2Authentication)
        ELSE k2

\* the three authentication settings of the query, each overwriting kwargs["auth"]
query_auth_kwargs(url, kwargs) ==
    LET q == url.query
        k1 == IF "access_token" \in DOMAIN q
              THEN Set(kwargs, "auth", JWTAuthentication(unquote_plus(q["access_token"])))
              ELSE kwargs
        k2 == IF "cert" \in DOMAIN q /\ "key" \in DOMAIN q
              THEN Set(k1, "auth", CertificateAuthentication(unquote_plus(q["cert"]),
                                                             unquote_plus(q["key"])))
              ELSE k1
    IN  IF "externalAuthentication" \in DOMAIN q
        THEN Set(k2, "auth", OAuth2Authentication)
        ELSE k2

source_kwargs(url, kwargs) ==
    IF "source" \in DOMAIN url.query
    THEN Set(kwargs, "source", unquote_plus(url.query["source"]))
    ELSE Set(kwargs, "source", <<"trino-sqlalchemy">>)

\* The JSON-valued settings, in the order the code reads them.
JsonKeys ==
    << "session_properties", "http_headers", "extra_credential", "client_tags",
       "legacy_primitive_types", "legacy_prepared_statements", "verify", "roles" >>

\* The settings JsonKeys[i..]: the first document that does not parse raises.
RECURSIVE json_kwargs(_, _, _)
json_kwargs(url, kwargs, i) ==
    IF i > Len(JsonKeys) THEN Return(kwargs)
    ELSE LET k == JsonKeys[i]
         IN  IF k \notin DOMAIN url.query
             THEN json_kwargs(url, kwargs, i + 1)
             ELSE LET text == IF k = "roles" THEN url.query[k]
                              ELSE unquote_plus(url.query[k])
                      r == json_loads(text)
                      \* extra_credential: [tuple(c) for c in value]
                      v == IF k = "extra_credential"
                           THEN [j \in 1..Len(r.value) |-> r.value[j]]
                           ELSE r.value
                  IN  IF r.exc # NoExc THEN Raise(r.exc)
                      ELSE json_kwargs(url, Set(kwargs, k, v), i + 1)

\* The kwargs of the returned (args, kwargs); args is always the empty list.
create_connect_args(url) ==
    LET db == db_kwargs(url, host_kwargs(url))
    IN  IF db.kind = "raise" THEN db
        ELSE LET pw == password_kwargs(url, user_kwargs(url, db.value))
             IN  IF pw.kind = "raise" THEN pw
                 ELSE json_kwargs(url,
                                  source_kwargs(url, query_auth_kwargs(url, pw.value)),
                                  1)

-----------------------------------------------------------------------------
(* The URLs create_connect_args is applied to                              *)

\* Longest database path, in characters.
MaxDbLen == 3

\* '/' separates, '+' and '%22' are what unquote_plus rewrites, '2' is also
\* an ordinary character.
DbChars == {"/", "+", "%", "2"}

Databases == {None} \cup UNION {[1..n -> DbChars] : n \in 0..MaxDbLen}
Usernames == {None, <<>>, <<"u", "+">>}
Passwords == {None, <<>>, <<"p">>}
Ports == {None, <<"8080">>}
JsonDocs == {<<"[", "]">>, <<"[">>}

EmptyQuery == [k \in {} |-> None]

AuthValue ==
    "access_token" :> <<"t", "+">> @@ "cert" :> <<"c">> @@ "key" :> <<"k">> @@
    "externalAuthentication" :> <<"t", "r", "u", "e">>

\* Every combination of the authentication settings of the query.
AuthQueries == {[k \in ks |-> AuthValue[k]] : ks \in SUBSET DOMAIN AuthValue}

\* At most one other setting: a port, a source, or one JSON-valued setting.
Settings ==
    {[port |-> p, query |-> EmptyQuery] : p \in Ports}
    \cup {[port |-> None, query |-> "source" :> <<"s", "+">>]}
    \cup {[port |-> None, query |-> JsonKeys[i] :> d] :
              i \in 1..Len(JsonKeys), d \in JsonDocs}

Url(d, u, p, a, s) ==
    [host |-> <<"h">>, port |-> s.port, database |-> d, username |-> u,
     password |-> p, query |-> a @@ s.query]

-----------------------------------------------------------------------------
(* The connection and the server behind it                                 *)

NoSuchTableError(m) == [type |-> "NoSuchTableError", msg |-> m, error_name |-> ""]
TrinoQueryError(n) == [type |-> "TrinoQueryError", msg |-> "", error_name |-> n]
ProgrammingError == [type |-> "ProgrammingError", msg |-> "", error_name |-> ""]
PERMISSION_DENIED == "PERMISSION_DENIED"

\* A statement given to connection.execute: which query text, and the values
\* bound to (or, for "$partitions", interpolated into) it.
Statement(sql, params) == [sql |-> sql, params |-> params]

\* What connection.execute answers: an exception, or a result with rows (each
\* a tuple) and a cursor description (each a tuple starting with the name).
Rows(rows, description) == [exc |-> NoExc, rows |-> rows, description |-> description]
Fails(e) == [exc |-> e, rows |-> <<>>, description |-> <<>>]

\* res.first() is not None
has_first(o) == o.rows # <<>>
\* res.scalar()
scalar(o) == IF o.rows = <<>> THEN None ELSE o.rows[1][1]

\* What one operation did: the statements it executed, in order, and its outcome.
Call(executed, result) == [executed |-> executed, result |-> result]

_get_default_catalog_name(conn) == conn.catalog
_get_default_schema_name(conn) == conn.schema

-----------------------------------------------------------------------------
(* Reflection operations.  conn is the connection's defaults; o, o1, o2    *)
(* are the server's answers to the operation's first and second execute    *)
(* (an answer is ignored when the operation does not get that far).        *)

has_schema(conn, schema_name, o) ==
    LET stmt == Statement("has_schema", <<schema_name>>)
    IN  IF o.exc # NoExc THEN Call(<<stmt>>, Raise(o.exc))
        ELSE Call(<<stmt>>, Return(has_first(o)))

\* has_table with the connection's default schema taking precedence over the
\* schema argument.
has_table_default_first(conn, table_name, schema_arg, o) ==
    LET schema == Or(_get_default_schema_name(conn), schema_arg)
        stmt == Statement("has_table", <<schema, table_name>>)
    IN  IF schema = None THEN Call(<<>>, Return(FALSE))
        ELSE IF o.exc # NoExc THEN Call(<<stmt>>, Raise(o.exc))
        ELSE Call(<<stmt>>, Return(has_first(o)))

has_table(conn, table_name, schema_arg, o) ==
    LET schema == Or(schema_arg, _get_default_schema_name(conn))
        stmt == Statement("has_table", <<schema, table_name>>)
    IN  IF schema = None THEN Call(<<>>, Return(FALSE))
        ELSE IF o.exc # NoExc THEN Call(<<stmt>>, Raise(o.exc))
        ELSE Call(<<stmt>>, Return(has_first(o)))

_get_columns(conn, table_name, schema_arg, o) ==
    LET schema == Or(schema_arg, _get_default_schema_name(conn))
        stmt == Statement("columns", <<schema, table_name>>)
        column(record) ==
            [name |-> record[1],
             type |-> <<"parse_sqltype", record[2]>>,
             nullable |-> (record[4] = <<"YES">>),
             default |-> record[3]]
    IN  IF o.exc # NoExc THEN Call(<<stmt>>, Raise(o.exc))
        ELSE Call(<<stmt>>, Return([i \in 1..Len(o.rows) |-> column(o.rows[i])]))

\* get_columns without the existence check: the column query runs first and
\* an empty answer stands for a missing table.
get_columns_ungated(conn, table_name, schema_arg, o1, o2) ==
    LET c == _get_columns(conn, table_name, schema_arg, o1)
    IN  IF c.result.kind = "return" /\ c.result.value = <<>>
        THEN Call(c.executed, Raise(NoSuchTableError("schema, table")))
        ELSE c

get_columns(conn, table_name, schema_arg, o1, o2) ==
    LET h == has_table(conn, table_name, schema_arg, o1)
        c == _get_columns(conn, table_name, schema_arg, o2)
    IN  IF h.result.kind = "raise" THEN h
        ELSE IF ~h.result.value
        THEN Call(h.executed, Raise(NoSuchTableError("schema, table")))
        ELSE Call(h.executed \o c.executed, c.result)

_get_partitions(conn, table_name, schema_arg, o) ==
    LET schema == Or(schema_arg, _get_default_schema_name(conn))
        stmt == Statement("$partitions", <<schema, table_name>>)
    IN  IF o.exc # NoExc THEN Call(<<stmt>>, Raise(o.exc))
        ELSE Call(<<stmt>>,
                  Return([i \in 1..Len(o.description) |-> o.description[i][1]]))

\* get_indexes without the try/except around _get_partitions.
get_indexes_propagating(conn, table_name, schema_arg, o1, o2) ==
    LET h == has_table(conn, table_name, schema_arg, o1)
        p == _get_partitions(conn, table_name, schema_arg, o2)
    IN  IF h.result.kind = "raise" THEN h
        ELSE IF ~h.result.value
        THEN Call(h.executed, Raise(NoSuchTableError("schema, table")))
        ELSE IF p.result.kind = "raise"
        THEN Call(h.executed \o p.executed, p.result)
        ELSE IF p.result.value = <<>>
        THEN Call(h.executed \o p.executed, Return(<<>>))
        ELSE Call(h.executed \o p.executed,
                  Return(<<[name |-> "partition",
                            column_names |-> p.result.value,
                            unique |-> FALSE]>>))

get_indexes(conn, table_name, schema_arg, o1, o2) ==
    LET h == has_table(conn, table_name, schema_arg, o1)
        p == _get_partitions(conn, table_name, schema_arg, o2)
        \* not partitioned_columns: still None because _get_partitions raised
        \* (the exception is logged and dropped), or an empty list
        no_partitioned_columns ==
            p.result.kind = "raise" \/ p.result.value = <<>>
    IN  IF h.result.kind = "raise" THEN h
        ELSE IF ~h.result.value
        THEN Call(h.executed, Raise(NoSuchTableError("schema, table")))
        ELSE IF no_partitioned_columns
        THEN Call(h.executed \o p.executed, Return(<<>>))
        ELSE Call(h.executed \o p.executed,
                  Return(<<[name |-> "partition",
                            column_names |-> p.result.value,
                            unique |-> FALSE]>>))

get_catalog_names(conn, o) ==
    LET stmt == Statement("catalogs", <<>>)
    IN  IF o.exc # NoExc THEN Call(<<stmt>>, Raise(o.exc))
        ELSE Call(<<stmt>>, Return([i \in 1..Len(o.rows) |-> o.rows[i][1]]))

get_schema_names(conn, o) ==
    LET stmt == Statement("schemata", <<>>)
    IN  IF o.exc # NoExc THEN Call(<<stmt>>, Raise(o.exc))
        ELSE Call(<<stmt>>, Return([i \in 1..Len(o.rows) |-> o.rows[i][1]]))

get_table_names(conn, schema_arg, o) ==
    LET schema == Or(schema_arg, _get_default_schema_name(conn))
        stmt == Statement("tables", <<schema, <<"BASE TABLE">> >>)
    IN  IF schema = None THEN Call(<<>>, Raise(NoSuchTableError("schema is required")))
        ELSE IF o.exc # NoExc THEN Call(<<stmt>>, Raise(o.exc))
        ELSE Call(<<stmt>>, Return([i \in 1..Len(o.rows) |-> o.rows[i][1]]))

get_view_names(conn, schema_arg, o) ==
    LET schema == Or(schema_arg, _get_default_schema_name(conn))
        stmt == Statement("tables", <<schema, <<"VIEW">> >>)
    IN  IF schema = None THEN Call(<<>>, Raise(NoSuchTableError("schema is required")))
        ELSE IF o.exc # NoExc THEN Call(<<stmt>>, Raise(o.exc))
        ELSE Call(<<stmt>>, Return([i \in 1..Len(o.rows) |-> o.rows[i][1]]))

get_view_definition(conn, view_name, schema_arg, o) ==
    LET schema == Or(schema_arg, _get_default_schema_name(conn))
        stmt == Statement("view_definition", <<schema, view_name>>)
    IN  IF schema = None THEN Call(<<>>, Raise(NoSuchTableError("schema is required")))
        ELSE IF o.exc # NoExc THEN Call(<<stmt>>, Raise(o.exc))
        ELSE Call(<<stmt>>, Return(scalar(o)))

\* get_table_comment turning every TrinoQueryError into an empty comment.
get_table_comment_lenient(conn, table_name, schema_arg, o) ==
    LET catalog_name == _get_default_catalog_name(conn)
        schema_name == Or(schema_arg, _get_default_schema_name(conn))
        stmt == Statement("table_comments", <<catalog_name, schema_name, table_name>>)
    IN  IF catalog_name = None
        THEN Call(<<>>, Raise(NoSuchTableError("catalog is required in connection")))
        ELSE IF schema_name = None
        THEN Call(<<>>, Raise(NoSuchTableError("schema is required")))
        ELSE IF o.exc = NoExc
        THEN Call(<<stmt>>, Return([text |-> scalar(o)]))
        ELSE IF o.exc.type = "TrinoQueryError"
        THEN Call(<<stmt>>, Return([text |-> None]))
        ELSE Call(<<stmt>>, Raise(o.exc))

get_table_comment(conn, table_name, schema_arg, o) ==
    LET catalog_name == _get_default_catalog_name(conn)
        schema_name == Or(schema_arg, _get_default_schema_name(conn))
        stmt == Statement("table_comments", <<catalog_name, schema_name, table_name>>)
    IN  IF catalog_name = None
        THEN Call(<<>>, Raise(NoSuchTableError("catalog is required in connection")))
        ELSE IF schema_name = None
        THEN Call(<<>>, Raise(NoSuchTableError("schema is required")))
        ELSE IF o.exc = NoExc
        THEN Call(<<stmt>>, Return([text |-> scalar(o)]))
        ELSE IF o.exc.type = "TrinoQueryError" /\ o.exc.error_name \in {PERMISSION_DENIED}
        THEN Call(<<stmt>>, Return([text |-> None]))
        ELSE Call(<<stmt>>, Raise(o.exc))

(* Features Trino does not support. *)
get_pk_constraint(conn, table_name, schema_arg) ==
    Call(<<>>, Return([name |-> None, constrained_columns |-> <<>>]))

get_primary_keys(conn, table_name, schema_arg) ==
    LET pk == get_pk_constraint(conn, table_name, schema_arg)
    IN  Call(pk.executed, Return(pk.result.value.constrained_columns))

\* get_foreign_keys asking the server, which knows of none.
get_foreign_keys_queried(conn, table_name, schema_arg) ==
    Call(<<Statement("foreign_keys",
                     <<Or(schema_arg, _get_default_schema_name(conn)), table_name>>)>>,
         Return(<<>>))

get_foreign_keys(conn, table_name, schema_arg) == Call(<<>>, Return(<<>>))
get_temp_table_names(conn, schema_arg) == Call(<<>>, Return(<<>>))
get_temp_view_names(conn, schema_arg) == Call(<<>>, Return(<<>>))
get_sequence_names(conn, schema_arg) == Call(<<>>, Return(<<>>))
get_unique_constraints(conn, table_name, schema_arg) == Call(<<>>, Return(<<>>))
get_check_constraints(conn, table_name, schema_arg) == Call(<<>>, Return(<<>>))
has_sequence(conn, sequence_name, schema_arg) == Call(<<>>, Return(FALSE))

(* server_version_info *)
\* The inner function behind the lazy property: one "SELECT version()".
get_server_version_info(o) ==
    LET stmt == Statement("SELECT version()", <<>>)
    IN  IF o.exc = NoExc THEN Call(<<stmt>>, Return(<<scalar(o)>>))
        ELSE IF o.exc.type = "ProgrammingError" THEN Call(<<stmt>>, Return(None))
        ELSE Call(<<stmt>>, Raise(o.exc))

\* A read of dialect.server_version_info.  Once _get_server_version_info has
\* installed the property, the read runs get_server_version_info.  Before
\* that the class has only the attribute it inherits from DefaultDialect
\* (None): get_server_version_info, the one place that issues
\* "SELECT version()", is not reachable from the read.
read_server_version_info(attribute, o) ==
    IF attribute = "lazy" THEN get_server_version_info(o)
    ELSE Call(<<>>, Return(None))

\* _get_server_version_info asking for the version at once.
_get_server_version_info_eager(connection) ==
    Call(<<Statement("SELECT version()", <<>>)>>, Return(None))

\* _get_server_version_info(connection): installs the property, returns None.
_get_server_version_info(connection) == Call(<<>>, Return(None))

\* cls.server_version_info after _get_server_version_info
install_server_version_info(attribute) == "lazy"

-----------------------------------------------------------------------------
(* Arguments and server answers of the reflection operations               *)

\* Most statements the connection executes in one behaviour.
MaxExecutions == 3
\* Most reads of server_version_info in one behaviour.
MaxReads == 2

Tables == {<<"t">>}
SchemaArgs == {None, <<>>, <<"s1">>}
DefaultCatalogs == {None, <<"c0">>}
DefaultSchemas == {None, <<"s0">>}

QueryErrors == {TrinoQueryError(PERMISSION_DENIED), TrinoQueryError("TABLE_NOT_FOUND")}

\* information_schema.tables / views: no row, or one row with one value
NameAnswers(v) ==
    {Rows(<<>>, <<>>), Rows(<< <<v>> >>, <<>>), Fails(TrinoQueryError("TABLE_NOT_FOUND"))}

\* information_schema.columns: column_name, data_type, column_default, is_nullable
ColumnAnswers ==
    {Rows(<<>>, <<>>),
     Rows(<< <<<<"id">>, <<"bigint">>, None, <<"NO">> >>,
             <<<<"ds">>, <<"varchar">>, None, <<"YES">> >> >>, <<>>),
     Fails(TrinoQueryError("TABLE_NOT_FOUND"))}

\* "$partitions": the cursor describes the partition columns, in order
PartitionAnswers ==
    {Rows(<<>>, <<>>),
     Rows(<<>>, << <<"ds", "varchar">> >>),
     Rows(<<>>, << <<"ds", "varchar">>, <<"hr", "bigint">> >>),
     Rows(<<>>, << <<"hr", "bigint">>, <<"ds", "varchar">> >>),
     Fails(TrinoQueryError("TABLE_NOT_FOUND")),
     Fails(ProgrammingError)}

\* system.metadata.table_comments: no row, a NULL comment, a comment, an error
CommentAnswers ==
    {Rows(<<>>, <<>>), Rows(<< <<None>> >>, <<>>), Rows(<< <<<<"a comment">>>> >>, <<>>),
     Fails(ProgrammingError)}
    \cup {Fails(e) : e \in QueryErrors}

VersionAnswers ==
    {Rows(<< <<<<"450">>>> >>, <<>>), Fails(ProgrammingError),
     Fails(TrinoQueryError("TABLE_NOT_FOUND"))}

-----------------------------------------------------------------------------
VARIABLES
    url,        \* the URL given to create_connect_args
    connect,    \* the outcome of create_connect_args(url), NotCalled before
    catalog,    \* the connection's default catalog (dbapi_connection.catalog)
    schema,     \* the connection's default schema (dbapi_connection.schema)
    executions, \* how many statements the connection has executed
    version_executions,
                \* how many of them were "SELECT version()"
    server_version_info,
                \* the class attribute: "inherited" from DefaultDialect, or
                \* the "lazy" property
    reads,      \* how often server_version_info has been read
    lastCall    \* the latest operation: its name, arguments, the server's
                \* answers it consumed, the statements it executed, its outcome

vars == <<url, connect, catalog, schema, executions, version_executions,
          server_version_info, reads, lastCall>>
connVars == <<catalog, schema, executions, version_executions,
              server_version_info, reads, lastCall>>

conn == [catalog |-> catalog, schema |-> schema]

NoCall == [op |-> "none", args |-> <<>>, answers |-> <<>>, executed |-> <<>>,
           result |-> NotCalled]

InitConn ==
    /\ catalog \in DefaultCatalogs
    /\ schema \in DefaultSchemas
    /\ executions = 0
    /\ version_executions = 0
    /\ server_version_info = "inherited"
    /\ reads = 0
    /\ lastCall = NoCall

\* How many of the statements are "SELECT version()".
VersionCount(statements) ==
    Cardinality({i \in 1..Len(statements) : statements[i].sql = "SELECT version()"})

\* The operation op(args) ran as `call`; an executed statement consumed the
\* next of `answers`, the rest of them was never asked for.
Do(op, args, answers, call) ==
    /\ executions + Len(call.executed) <= MaxExecutions
    /\ executions' = executions + Len(call.executed)
    /\ version_executions' = version_executions + VersionCount(call.executed)
    /\ lastCall' = [op |-> op, args |-> args,
                    answers |-> [i \in 1..Len(answers) \cap 1..Len(call.executed)
                                     |-> answers[i]],
                    executed |-> call.executed, result |-> call.result]
    /\ UNCHANGED <<url, connect, catalog, schema>>

HasTable ==
    \E t \in Tables, s \in SchemaArgs : \E o \in NameAnswers(t) :
        /\ Do("has_table", <<t, s>>, <<o>>, has_table(conn, t, s, o))
        /\ UNCHANGED <<server_version_info, reads>>

GetColumns ==
    \E t \in Tables, s \in SchemaArgs : \E o1 \in NameAnswers(t), o2 \in ColumnAnswers :
        /\ Do("get_columns", <<t, s>>, <<o1, o2>>, get_columns(conn, t, s, o1, o2))
        /\ UNCHANGED <<server_version_info, reads>>

GetIndexes ==
    \E t \in Tables, s \in SchemaArgs : \E o1 \in NameAnswers(t), o2 \in PartitionAnswers :
        /\ Do("get_indexes", <<t, s>>, <<o1, o2>>, get_indexes(conn, t, s, o1, o2))
        /\ UNCHANGED <<server_version_info, reads>>

GetCatalogNames ==
    \E o \in NameAnswers(<<"c0">>) :
        /\ Do("get_catalog_names", <<>>, <<o>>, get_catalog_names(conn, o))
        /\ UNCHANGED <<server_version_info, reads>>

GetSchemaNames ==
    \E o \in NameAnswers(<<"s0">>) :
        /\ Do("get_schema_names", <<>>, <<o>>, get_schema_names(conn, o))
        /\ UNCHANGED <<server_version_info, reads>>

HasSchema ==
    \E s \in SchemaArgs \ {None, <<>>} : \E o \in NameAnswers(s) :
        /\ Do("has_schema", <<s>>, <<o>>, has_schema(conn, s, o))
        /\ UNCHANGED <<server_version_info, reads>>

GetTableNames ==
    \E s \in SchemaArgs, o \in NameAnswers(<<"t">>) :
        /\ Do("get_table_names", <<s>>, <<o>>, get_table_names(conn, s, o))
        /\ UNCHANGED <<server_version_info, reads>>

GetViewNames ==
    \E s \in SchemaArgs, o \in NameAnswers(<<"v">>) :
        /\ Do("get_view_names", <<s>>, <<o>>, get_view_names(conn, s, o))
        /\ UNCHANGED <<server_version_info, reads>>

GetViewDefinition ==
    \E t \in Tables, s \in SchemaArgs, o \in NameAnswers(<<"SELECT 1">>) :
        /\ Do("get_view_definition", <<t, s>>, <<o>>, get_view_definition(conn, t, s, o))
        /\ UNCHANGED <<server_version_info, reads>>

GetTableComment ==
    \E t \in Tables, s \in SchemaArgs, o \in CommentAnswers :
        /\ Do("get_table_comment", <<t, s>>, <<o>>, get_table_comment(conn, t, s, o))
        /\ UNCHANGED <<server_version_info, reads>>

GetPkConstraint ==
    \E t \in Tables, s \in SchemaArgs :
        /\ Do("get_pk_constraint", <<t, s>>, <<>>, get_pk_constraint(conn, t, s))
        /\ UNCHANGED <<server_version_info, reads>>

GetPrimaryKeys ==
    \E t \in Tables, s \in SchemaArgs :
        /\ Do("get_primary_keys", <<t, s>>, <<>>, get_primary_keys(conn, t, s))
        /\ UNCHANGED <<server_version_info, reads>>

GetForeignKeys ==
    \E t \in Tables, s \in SchemaArgs :
        /\ Do("get_foreign_keys", <<t, s>>, <<>>, get_foreign_keys(conn, t, s))
        /\ UNCHANGED <<server_version_info, reads>>

GetTempTableNames ==
    \E s \in SchemaArgs :
        /\ Do("get_temp_table_names", <<s>>, <<>>, get_temp_table_names(conn, s))
        /\ UNCHANGED <<server_version_info, reads>>

GetTempViewNames ==
    \E s \in SchemaArgs :
        /\ Do("get_temp_view_names", <<s>>, <<>>, get_temp_view_names(conn, s))
        /\ UNCHANGED <<server_version_info, reads>>

GetSequenceNames ==
    \E s \in SchemaArgs :
        /\ Do("get_sequence_names", <<s>>, <<>>, get_sequence_names(conn, s))
        /\ UNCHANGED <<server_version_info, reads>>

GetUniqueConstraints ==
    \E t \in Tables, s \in SchemaArgs :
        /\ Do("get_unique_constraints", <<t, s>>, <<>>, get_unique_constraints(conn, t, s))
        /\ UNCHANGED <<server_version_info, reads>>

GetCheckConstraints ==
    \E t \in Tables, s \in SchemaArgs :
        /\ Do("get_check_constraints", <<t, s>>, <<>>, get_check_constraints(conn, t, s))
        /\ UNCHANGED <<server_version_info, reads>>

HasSequence ==
    \E t \in Tables, s \in SchemaArgs :
        /\ Do("has_sequence", <<t, s>>, <<>>, has_sequence(conn, t, s))
        /\ UNCHANGED <<server_version_info, reads>>

\* cls.server_version_info = property(get_server_version_info, ...)
GetServerVersionInfo ==
    /\ Do("_get_server_version_info", <<>>, <<>>, _get_server_version_info(conn))
    /\ server_version_info' = install_server_version_info(server_version_info)
    /\ UNCHANGED reads

\* dialect.server_version_info is read
ReadServerVersionInfo ==
    \E o \in VersionAnswers :
        /\ reads < MaxReads
        /\ Do("server_version_info", <<>>, <<o>>,
              read_server_version_info(server_version_info, o))
        /\ reads' = reads + 1
        /\ UNCHANGED server_version_info

Next ==
    \/ HasTable
    \/ GetColumns
    \/ GetIndexes
    \/ GetCatalogNames
    \/ GetSchemaNames
    \/ HasSchema
    \/ GetTableNames
    \/ GetViewNames
    \/ GetViewDefinition
    \/ GetTableComment
    \/ GetPkConstraint
    \/ GetPrimaryKeys
    \/ GetForeignKeys
    \/ GetTempTableNames
    \/ GetTempViewNames
    \/ GetSequenceNames
    \/ GetUniqueConstraints
    \/ GetCheckConstraints
    \/ HasSequence
    \/ GetServerVersionInfo
    \/ ReadServerVersionInfo

Init ==
    /\ InitConn
    /\ url = Url(None, None, None, EmptyQuery, [port |-> None, query |-> EmptyQuery])
    /\ connect = NotCalled

Spec == Init /\ [][Next]_vars

(* create_connect_args applied to one URL *)
InitUrl ==
    /\ \E d \in Databases, u \in Usernames, p \in Passwords,
          a \in AuthQueries, s \in Settings : url = Url(d, u, p, a, s)
    /\ connect = NotCalled
    /\ catalog = None
    /\ schema = None
    /\ executions = 0
    /\ version_executions = 0
    /\ server_version_info = "inherited"
    /\ reads = 0
    /\ lastCall = NoCall

CreateConnectArgs ==
    /\ connect = NotCalled
    /\ connect' = create_connect_args(url)
    /\ UNCHANGED <<url, connVars>>

NextUrl == CreateConnectArgs

SpecUrl == InitUrl /\ [][NextUrl]_vars

-----------------------------------------------------------------------------
(* create_connect_args: properties, checked under SpecUrl                  *)

Called == connect.kind # "not_called"
Returned == connect.kind = "return"
kwargs == connect.value

\* Where the database path has a '/'.
Slashes(db) == {i \in 1..Len(db) : db[i] = "/"}

\* The database path is absent, empty, or has at most two segments.
WellFormedDatabase ==
    ~Truthy(url.database) \/ Cardinality(Slashes(url.database)) <= 1

UnexpectedDatabaseFormat == ValueError("Unexpected database format")
UsernameRequired ==
    ValueError("Username is required when specify password in connection URL")

\* C1: the database path decides catalog and schema.  Absent or empty: catalog
\* "system", no schema.  One segment: catalog is the decoded segment, no
\* schema.  Two segments: catalog and schema are the decoded first and second
\* segment.  Three or more: the call raises ValueError and returns nothing.
\* With at most two segments the path is never the reason the call raises.
C1_DatabaseMapping ==
    Called =>
        LET db == url.database
            cut == Slashes(db)
            i == CHOOSE k \in cut : TRUE
        IN  IF ~Truthy(db)
            THEN /\ connect.exc # UnexpectedDatabaseFormat
                 /\ Returned => /\ kwargs["catalog"] = <<"system">>
                                /\ "schema" \notin DOMAIN kwargs
            ELSE IF cut = {}
            THEN /\ connect.exc # UnexpectedDatabaseFormat
                 /\ Returned => /\ kwargs["catalog"] = unquote_plus(db)
                                /\ "schema" \notin DOMAIN kwargs
            ELSE IF Cardinality(cut) = 1
            THEN /\ connect.exc # UnexpectedDatabaseFormat
                 /\ Returned =>
                      /\ kwargs["catalog"] = unquote_plus(SubSeq(db, 1, i - 1))
                      /\ "schema" \in DOMAIN kwargs
                      /\ kwargs["schema"] = unquote_plus(SubSeq(db, i + 1, Len(db)))
            ELSE /\ connect.kind = "raise"
                 /\ connect.exc = UnexpectedDatabaseFormat

\* C1 witness: the path "+/2" gave catalog " " (decoded) and schema "2".
C1_Witness ==
    /\ Returned
    /\ url.database = <<"+", "/", "2">>
    /\ kwargs["catalog"] = <<" ">>
    /\ kwargs["schema"] = <<"2">>

\* C4: a returned kwargs holds the authentication of the strongest credential
\* of the URL: externalAuthentication (OAuth2), else cert together with key
\* (certificate), else access_token (JWT), else a password with a username
\* (basic); with none of them it has no "auth" key.  A cert without a key, or
\* a key without a cert, selects nothing.
C4_AuthPrecedence ==
    Returned =>
        LET q == DOMAIN url.query
            mode == IF "auth" \in DOMAIN kwargs THEN kwargs["auth"].mode ELSE "no auth"
        IN  IF "externalAuthentication" \in q THEN mode = "oauth2"
            ELSE IF "cert" \in q /\ "key" \in q THEN mode = "certificate"
            ELSE IF "access_token" \in q THEN mode = "jwt"
            ELSE IF Truthy(url.password) /\ Truthy(url.username) THEN mode = "basic"
            ELSE mode = "no auth"

\* C4 witness: a cert without a key next to a token and a password: JWT.
C4_Witness ==
    /\ Returned
    /\ "cert" \in DOMAIN url.query
    /\ "key" \notin DOMAIN url.query
    /\ "access_token" \in DOMAIN url.query
    /\ Truthy(url.password)
    /\ kwargs["auth"] = JWTAuthentication(<<"t", " ">>)

\* C5 as stated: a (non-empty) password without a username raises the
\* "Username is required" ValueError whatever else the URL carries, and a URL
\* with a well-formed database path and no password never raises it.
C5_Original ==
    Called =>
        /\ Truthy(url.password) /\ ~Truthy(url.username) =>
               connect.kind = "raise" /\ connect.exc = UsernameRequired
        /\ WellFormedDatabase /\ ~Truthy(url.password) =>
               connect.exc # UsernameRequired

\* C5 amended: on a URL whose database path is well formed, a (non-empty)
\* password without a username raises the "Username is required" ValueError,
\* whatever authentication settings the query carries; without a password the
\* call never raises it.
C5_UsernameRequired ==
    Called =>
        /\ WellFormedDatabase /\ Truthy(url.password) /\ ~Truthy(url.username) =>
               connect.kind = "raise" /\ connect.exc = UsernameRequired
        /\ ~Truthy(url.password) => connect.exc # UsernameRequired

\* C5 witness: the error is raised although the URL asks for OAuth2 and
\* carries a token.
C5_Witness ==
    /\ connect.kind = "raise"
    /\ connect.exc = UsernameRequired
    /\ url.password = <<"p">>
    /\ url.username = None
    /\ {"externalAuthentication", "access_token"} \subseteq DOMAIN url.query

-----------------------------------------------------------------------------
(* Reflection operations: properties, checked under Spec                   *)

\* The schema a call works on: its argument, else the connection's default.
LastSchemaArg == lastCall.args[Len(lastCall.args)]
LastSchema == Or(LastSchemaArg, schema)

\* The sql of the statements the latest call executed.
LastSql == [i \in 1..Len(lastCall.executed) |-> lastCall.executed[i].sql]

LastRaised(type) ==
    lastCall.result.kind = "raise" /\ lastCall.result.exc.type = type

EmptyListOperations ==
    {"get_foreign_keys", "get_sequence_names", "get_unique_constraints",
     "get_check_constraints", "get_temp_table_names", "get_temp_view_names",
     "get_primary_keys"}

\* C2: the operations for unsupported features execute nothing and return a
\* fixed value: an empty list (foreign keys, sequence names, unique and check
\* constraints, temp tables, temp views, primary keys), the dummy
\* {name: None, constrained_columns: []} (get_pk_constraint), False
\* (has_sequence), whatever the arguments and the connection's state.
C2_Unsupported ==
    /\ lastCall.op \in EmptyListOperations =>
           /\ lastCall.executed = <<>>
           /\ lastCall.result.kind = "return"
           /\ lastCall.result.value = <<>>
    /\ lastCall.op = "get_pk_constraint" =>
           /\ lastCall.executed = <<>>
           /\ lastCall.result.kind = "return"
           /\ lastCall.result.value = [name |-> None, constrained_columns |-> <<>>]
    /\ lastCall.op = "has_sequence" =>
           /\ lastCall.executed = <<>>
           /\ lastCall.result.kind = "return"
           /\ lastCall.result.value = FALSE

\* C2 witness: get_primary_keys with a schema argument, on a connection that
\* has executed statements and whose dialect has the lazy property.
C2_Witness ==
    /\ lastCall.op = "get_primary_keys"
    /\ lastCall.args[2] = <<"s1">>
    /\ lastCall.result.kind = "return"
    /\ executions >= 2
    /\ server_version_info = "lazy"

\* C3 as stated: _get_server_version_info executes nothing, and at every
\* moment the number of "SELECT version()" executions is the number of reads
\* of server_version_info.
C3_Original ==
    /\ lastCall.op = "_get_server_version_info" => lastCall.executed = <<>>
    /\ version_executions = reads

\* C3 amended: _get_server_version_info executes nothing; a read of
\* server_version_info made after _get_server_version_info has installed the
\* property executes exactly one statement, "SELECT version()"; a read made
\* before executes nothing; no other operation executes "SELECT version()".
C3_LazyVersion ==
    [][/\ lastCall'.op = "_get_server_version_info" => executions' = executions
       /\ version_executions' - version_executions =
              IF reads' # reads /\ server_version_info = "lazy" THEN 1 ELSE 0
       /\ reads' # reads =>
              executions' - executions = version_executions' - version_executions
      ]_vars

\* C3 witness: two reads, one before and one after the property was installed,
\* and one execution.
C3_Witness ==
    /\ server_version_info = "lazy"
    /\ lastCall.op = "server_version_info"
    /\ reads = 2
    /\ version_executions = 1

\* C6: get_columns and get_indexes first run has_table's query for the given
\* table and schema.  When has_table answers False (no schema to look in, or
\* no matching row) they raise NoSuchTableError and the column query,
\* respectively the "$partitions" query, is not executed; that query is
\* executed only as the second statement, after has_table's query found a row.
C6_Gated ==
    lastCall.op \in {"get_columns", "get_indexes"} =>
        LET second == IF lastCall.op = "get_columns" THEN "columns" ELSE "$partitions"
            no_table ==
                \/ LastSchema = None
                \/ /\ Len(lastCall.answers) >= 1
                   /\ lastCall.answers[1].exc = NoExc
                   /\ lastCall.answers[1].rows = <<>>
        IN  /\ no_table =>
                /\ LastRaised("NoSuchTableError")
                /\ \A i \in 1..Len(LastSql) : LastSql[i] # second
            /\ LastSchema # None =>
                /\ Len(LastSql) >= 1
                /\ lastCall.executed[1] =
                       Statement("has_table", <<LastSchema, lastCall.args[1]>>)
            /\ \A i \in 1..Len(LastSql) :
                   LastSql[i] = second =>
                       /\ i = 2
                       /\ lastCall.answers[1].exc = NoExc
                       /\ lastCall.answers[1].rows # <<>>

\* C6 witness: get_columns looked the table up, found no row, and raised
\* NoSuchTableError after that single statement.
C6_Witness ==
    /\ lastCall.op = "get_columns"
    /\ LastSql = <<"has_table">>
    /\ lastCall.answers[1] = Rows(<<>>, <<>>)
    /\ LastRaised("NoSuchTableError")

\* C7: for an existing table get_indexes always returns: the empty list when
\* the "$partitions" query raises or describes no column, else the single
\* index {name: "partition", unique: False, column_names: the described
\* columns in the query's order}.
C7_Indexes ==
    /\ lastCall.op = "get_indexes"
    /\ Len(lastCall.answers) >= 1
    /\ lastCall.answers[1].exc = NoExc
    /\ lastCall.answers[1].rows # <<>>
    => /\ Len(lastCall.answers) = 2
       /\ lastCall.result.kind = "return"
       /\ LET o == lastCall.answers[2]
              names == [i \in 1..Len(o.description) |-> o.description[i][1]]
          IN  IF o.exc # NoExc \/ o.description = <<>>
              THEN lastCall.result.value = <<>>
              ELSE lastCall.result.value =
                       <<[name |-> "partition", unique |-> FALSE,
                          column_names |-> names]>>

\* C7 witness: the "$partitions" query raised and get_indexes returned [].
C7_Witness ==
    /\ lastCall.op = "get_indexes"
    /\ Len(lastCall.answers) = 2
    /\ lastCall.answers[2].exc # NoExc
    /\ lastCall.result.kind = "return"
    /\ lastCall.result.value = <<>>

\* C8: get_table_comment without a default catalog raises NoSuchTableError
\* ("catalog is required in connection") and executes nothing, whether or not
\* there is a schema.  When its query runs: success gives {text: the comment};
\* TrinoQueryError PERMISSION_DENIED gives {text: None}; every other error is
\* raised to the caller.
C8_TableComment ==
    lastCall.op = "get_table_comment" =>
        /\ catalog = None =>
               /\ lastCall.executed = <<>>
               /\ lastCall.result.kind = "raise"
               /\ lastCall.result.exc =
                      NoSuchTableError("catalog is required in connection")
        /\ Len(lastCall.answers) = 1 =>
               LET o == lastCall.answers[1]
               IN  IF o.exc = NoExc
                   THEN /\ lastCall.result.kind = "return"
                        /\ lastCall.result.value.text = scalar(o)
                   ELSE IF o.exc = TrinoQueryError(PERMISSION_DENIED)
                   THEN /\ lastCall.result.kind = "return"
                        /\ lastCall.result.value.text = None
                   ELSE /\ lastCall.result.kind = "raise"
                        /\ lastCall.result.exc = o.exc

\* C8 witness: a TrinoQueryError other than PERMISSION_DENIED reached the caller.
C8_Witness ==
    /\ lastCall.op = "get_table_comment"
    /\ Len(lastCall.answers) = 1
    /\ lastCall.answers[1].exc = TrinoQueryError("TABLE_NOT_FOUND")
    /\ lastCall.result.kind = "raise"
    /\ lastCall.result.exc = TrinoQueryError("TABLE_NOT_FOUND")

\* C9: with no schema argument (None or "") and no default schema,
\* get_table_names, get_view_names and get_view_definition raise
\* NoSuchTableError ("schema is required") and has_table returns False, all
\* without executing anything; with a schema argument, the one statement they
\* execute names that schema, not the connection's default.
C9_SchemaRequired ==
    LET listing == {"get_table_names", "get_view_names", "get_view_definition"}
    IN  lastCall.op \in listing \cup {"has_table"} =>
            /\ ~Truthy(LastSchemaArg) /\ schema = None =>
                   /\ lastCall.executed = <<>>
                   /\ lastCall.op \in listing =>
                          /\ lastCall.result.kind = "raise"
                          /\ lastCall.result.exc = NoSuchTableError("schema is required")
                   /\ lastCall.op = "has_table" =>
                          /\ lastCall.result.kind = "return"
                          /\ lastCall.result.value = FALSE
            /\ Truthy(LastSchemaArg) =>
                   /\ Len(lastCall.executed) = 1
                   /\ lastCall.executed[1].params[1] = LastSchemaArg

\* C9 witness: has_table with a schema argument on a connection that has a
\* default schema looked in the argument's schema.
C9_Witness ==
    /\ lastCall.op = "has_table"
    /\ schema = <<"s0">>
    /\ lastCall.args[2] = <<"s1">>
    /\ lastCall.executed = <<Statement("has_table", <<<<"s1">>, <<"t">>>>)>>

====
